---- MODULE Spec2Model ----
(***************************************************************************)
(* UTube (src/main.py): the keyword-query handler on_event, the thumbnail  *)
(* cache download_and_cache and the worker pool that runs it.              *)
(*                                                                         *)
(* One coordinating flow runs on_event, one query after the other; the     *)
(* tasks it submits run on a pool of PoolSize workers and may outlive the  *)
(* query that submitted them.                                              *)
(***************************************************************************)
EXTENDS Integers, Sequences, FiniteSets, TLC

(* ------------------------------ bounds --------------------------------- *)
\* most blanks before and after the text of a query event
MaxPad == 1
\* longest page text, in tokens
MaxDocLen == 3
\* most sections of a payload, and most items of a section
MaxSections == 2
MaxItems == 2
\* largest value of the max_results preference
MaxM == 2
\* number of query events delivered
MaxQueries == 1
\* workers of the pool: min(4, os.cpu_count() or 1)
PoolSize == 2
\* longest text given to format_views
MaxViewLen == 4
\* latest modification time of a cached image found at startup
MaxTime == 2
\* largest capacity of the cache; the program's is 100 (line 37), scaled down
MaxCap == 2

(* --------------------------- small helpers ----------------------------- *)
None == "None"

SeqsUpTo(S, n) == UNION { [1..k -> S] : k \in 0..n }

Min(a, b) == IF a < b THEN a ELSE b

RECURSIVE Concat(_)
Concat(ss) == IF ss = <<>> THEN <<>> ELSE Head(ss) \o Concat(Tail(ss))

(* ------------------------- the query string ---------------------------- *)
Chars == {" ", "a"}

\* str.strip(): drop leading and trailing whitespace
RECURSIVE LStrip(_)
LStrip(s) == IF s # <<>> /\ Head(s) = " " THEN LStrip(Tail(s)) ELSE s

RECURSIVE RStrip(_)
RStrip(s) ==
    IF s # <<>> /\ s[Len(s)] = " " THEN RStrip(SubSeq(s, 1, Len(s) - 1)) ELSE s

Strip(s) == RStrip(LStrip(s))

\* (event.get_argument() or "").strip()
QueryOf(arg) == IF arg.isNone THEN <<>> ELSE Strip(arg.text)

\* the texts typed, before blanks are put around them
Cores == {<<>>, <<"a">>, <<"a", "a">>, <<"a", " ", "a">>}

Blanks(n) == [k \in 1..n |-> " "]

\* the arguments an event can carry: None, or a text between blanks
Arguments ==
    {[isNone |-> TRUE, text |-> <<>>]}
        \cup {[isNone |-> FALSE, text |-> Blanks(l) \o c \o Blanks(r)] :
                c \in Cores, l \in 0..MaxPad, r \in 0..MaxPad}

\* the minimum query length of line 128
MinQueryLen == 3

\* a threshold one too low, for comparison
TooShortLoose(q) == Len(q) < MinQueryLen - 1

\* if len(query) < 3 (line 128)
TooShort(q) == Len(q) < MinQueryLen

\* query.replace(' ', '+')
ReplaceSpaces(q) == [i \in 1..Len(q) |-> IF q[i] = " " THEN "+" ELSE q[i]]

\* f"https://www.youtube.com/results?search_query={...}"
SearchUrl(q) == [site |-> "results?search_query=", arg |-> ReplaceSpaces(q)]

\* f"https://www.youtube.com/watch?v={v_id}"
WatchUrl(v_id) == [site |-> "watch?v=", arg |-> <<v_id>>]

\* on_enter=None
NoAction == [site |-> None, arg |-> <<>>]

\* on_enter=OpenUrlAction(url)
OpenUrlAction(url) == url

(* ---------------------------- exceptions ------------------------------- *)
RequestExceptions == {"ConnectionError", "Timeout", "HTTPError"}
OtherExceptions ==
    {"IndexError", "AttributeError", "JSONDecodeError", "UnidentifiedImageError",
     "OSError"}

\* except requests.exceptions.RequestException (line 142)
CatchesRequestException(e) == e \in RequestExceptions

\* except Exception (lines 155, 243 and 119)
CatchesException(e) == e \in RequestExceptions \cup OtherExceptions

\* a handler that misses the HTTPError of raise_for_status, for comparison
FetchHandlerNoStatus(e) == e \in {"ConnectionError", "Timeout"}

\* the handler of the search request (lines 139-150)
FetchHandler(e) == CatchesRequestException(e)

\* the handler of the extraction of the payload (lines 152-163)
ParseHandler(e) == CatchesException(e)

\* an outer handler for request exceptions only, for comparison
OuterHandlerNarrow(e) == CatchesRequestException(e)

\* the handler around the whole pipeline (lines 137, 243-252)
OuterHandler(e) == CatchesException(e)

(* ------------------------------ records -------------------------------- *)
icon_default == <<"images", "icon.png">>

\* extension.i18n(key, default): the key and the text used when it is missing
i18n(key, default) == <<key, default>>

PromptRecord ==
    [item |-> "ExtensionResultItem", icon |-> icon_default,
     name |-> i18n("search_prompt", "Digite para pesquisar no YouTube"),
     description |-> <<>>, on_enter |-> NoAction]

\* the record of the network-failure branch (lines 143-150)
NetworkErrorRecord ==
    [item |-> "ExtensionResultItem", icon |-> icon_default,
     name |-> i18n("network_error", "Erro de conexao"),
     description |-> i18n("search_error_desc", "Verifique sua internet"),
     on_enter |-> NoAction]

\* the record of the parse-failure branch (lines 156-163)
FallbackRecord(q) ==
    [item |-> "ExtensionResultItem", icon |-> icon_default,
     name |-> <<"'", q, "'">>,
     description |-> i18n("search_browser_line2", "Pesquisar no YouTube via navegador"),
     on_enter |-> OpenUrlAction(SearchUrl(q))]

\* the leading record of the items list (lines 172-179)
BrowserRecord(q) ==
    [item |-> "ExtensionResultItem", icon |-> icon_default,
     name |-> <<"'", q, "'">>,
     description |-> i18n("search_browser_line2", "Pesquisar no navegador"),
     on_enter |-> OpenUrlAction(SearchUrl(q))]

\* an error record that opens a URL, for comparison
ErrorRecordWithUrl ==
    [item |-> "ExtensionResultItem", icon |-> icon_default,
     name |-> i18n("search_error", "Ops! Algo deu errado na busca"),
     description |-> i18n("search_error_desc", "Tente novamente"),
     on_enter |-> OpenUrlAction(SearchUrl(<<>>))]

\* the record of the outer handler (lines 245-252)
ErrorRecord ==
    [item |-> "ExtensionResultItem", icon |-> icon_default,
     name |-> i18n("search_error", "Ops! Algo deu errado na busca"),
     description |-> i18n("search_error_desc", "Tente novamente"),
     on_enter |-> NoAction]

(* ---------------------------- the page text ---------------------------- *)
\* r.text as a sequence of tokens: the marker "var ytInitialData = ", the
\* marker ";</script>", a complete JSON value, and any other text
Tokens == {"PRE", "SUF", "JSON", "JUNK"}

Docs == SeqsUpTo(Tokens, MaxDocLen)

Occurs(doc, tok) == \E i \in 1..Len(doc) : doc[i] = tok

FirstIndex(doc, tok) == CHOOSE i \in 1..Len(doc) :
    doc[i] = tok /\ \A j \in 1..(i - 1) : doc[j] # tok

\* str.split(sep): the pieces between the occurrences of sep, at least one
RECURSIVE Split(_, _)
Split(doc, tok) ==
    IF ~Occurs(doc, tok) THEN <<doc>>
    ELSE LET i == FirstIndex(doc, tok)
         IN <<SubSeq(doc, 1, i - 1)>> \o Split(SubSeq(doc, i + 1, Len(doc)), tok)

\* json.loads accepts exactly one JSON value
JsonLoads(text) == text = <<"JSON">>

\* r.text.split("var ytInitialData = ")[1].split(";</script>")[0], then
\* json.loads (lines 153-154): "ok", or the exception raised
ParsePage(doc) ==
    LET parts == Split(doc, "PRE")
    IN IF Len(parts) < 2 THEN "IndexError"
       ELSE IF JsonLoads(Split(parts[2], "SUF")[1]) THEN "ok"
       ELSE "JSONDecodeError"

(* ----------------------------- the payload ----------------------------- *)
\* the video renderers a payload can hold
VideoNames == {"VA", "VB", "VC", "VE"}

\* an item of a section: a video renderer, or anything else
ItemKinds == VideoNames \cup {"other"}

\* item.get('videoRenderer'), truthy
IsVideo(item) == item \in VideoNames

\* byline/title: "absent" (key missing), "empty" (runs == []), "present";
\* thumbs: "absent", "empty" (thumbnails == []), "nourl", "//", "https:"
Video(name) ==
    CASE name = "VA" ->
           [videoId |-> "a", byline |-> "present", chanName |-> "X",
            browseId |-> "UCX", chanThumb |-> "//", vidThumb |-> "https:",
            title |-> "present", lengthText |-> "present"]
      [] name = "VB" ->
           [videoId |-> "b", byline |-> "present", chanName |-> "X",
            browseId |-> "UCX", chanThumb |-> "https:", vidThumb |-> "//",
            title |-> "present", lengthText |-> "present"]
      [] name = "VC" ->
           [videoId |-> "c", byline |-> "absent", chanName |-> None,
            browseId |-> None, chanThumb |-> "absent", vidThumb |-> "nourl",
            title |-> "absent", lengthText |-> "absent"]
      [] name = "VE" ->
           [videoId |-> "e", byline |-> "present", chanName |-> "Y",
            browseId |-> "UCY", chanThumb |-> "absent", vidThumb |-> "empty",
            title |-> "empty", lengthText |-> "present"]

\* data['contents'][...]['sectionListRenderer']['contents'] of a payload:
\* a list of sections, each a list of items
Payloads(kinds) == SeqsUpTo(SeqsUpTo(kinds, MaxItems), MaxSections)

\* the payloads the extractor is run on by itself
ScanKinds == {"VA", "VB", "other"}
ScanPayloads == Payloads(ScanKinds)

\* the payloads a search page carries: at most one section, with up to one
\* item more than the largest max_results; a video occurs once in a page
NoRepeat(s) ==
    \A j, k \in 1..Len(s) : (j # k /\ s[j] = s[k]) => ~IsVideo(s[j])

PagePayloads ==
    {<<>>} \cup { <<s>> : s \in {t \in SeqsUpTo(ItemKinds, MaxM + 1) : NoRepeat(t)} }

\* a break one video late, for comparison
ReachedMaxLoose(videos, pref_max) == Len(videos) > pref_max

\* if len(videos) >= pref_max: break (lines 188, 190)
ReachedMax(videos, pref_max) == Len(videos) >= pref_max

\* the inner loop of lines 184-189 over one section
RECURSIVE ScanItems(_, _, _)
ScanItems(item_list, videos, pref_max) ==
    IF item_list = <<>> THEN videos
    ELSE IF IsVideo(Head(item_list))
         THEN LET vs == Append(videos, Head(item_list))
              IN IF ReachedMax(vs, pref_max) THEN vs
                 ELSE ScanItems(Tail(item_list), vs, pref_max)
         ELSE ScanItems(Tail(item_list), videos, pref_max)

\* the outer loop of lines 182-191 over the sections
RECURSIVE ScanSections(_, _, _)
ScanSections(contents, videos, pref_max) ==
    IF contents = <<>> THEN videos
    ELSE LET vs == ScanItems(Head(contents), videos, pref_max)
         IN IF ReachedMax(vs, pref_max) THEN vs
            ELSE ScanSections(Tail(contents), vs, pref_max)

\* videos = [] ... (lines 181-191)
ExtractVideos(contents, pref_max) == ScanSections(contents, <<>>, pref_max)

(* --------------------------- thumbnail cache --------------------------- *)
ThumbModes == {"channel", "video", "none"}
Layouts == {"layout_classic", "layout_inverted", "layout_minimal", "layout_other"}

\* download_and_cache returning None
NoPath == <<>>

\* os.path.join(cache_dir, f"{'c' if is_ch else 'v'}_{chan_id if is_ch else v_id}.png")
ImgPath(is_ch, chan_id, v_id) ==
    IF is_ch THEN <<"c", chan_id>> ELSE <<"v", v_id>>

\* chan_data...get('browseId', v_id) (lines 199-200), for a byline that has
\* a first run or none at all
ChanId(v) ==
    IF v.byline = "present" /\ v.browseId # None THEN v.browseId ELSE v.videoId

\* the first entry of the thumbnails list of the mode (line 209)
ThumbEntry(v, is_ch) == IF is_ch THEN v.chanThumb ELSE v.vidThumb

\* if t_url.startswith('//'): t_url = 'https:' + t_url (lines 211-212)
NormalizeUrl(t_url) ==
    IF Head(t_url) = "//" THEN <<"https:">> \o t_url ELSE t_url

\* the URL of the first thumbnail entry, as the page gives it
RawUrl(v, is_ch) ==
    IF ThumbEntry(v, is_ch) = "//" THEN <<"//", "img", v.videoId>>
    ELSE <<"https:", "//", "img", v.videoId>>

\* a cache that never finds a file, for comparison
ExistsNever(path, files) == FALSE

\* os.path.exists(img_path) of lines 103 and 206
Exists(path, files) == path \in files

\* the loop of lines 196-213 without the test of line 206, for comparison
DispatchOutcomeNoHit(v, thumb, files) ==
    LET is_ch == thumb = "channel"
        img_path == ImgPath(is_ch, ChanId(v), v.videoId)
    IN IF v.byline = "empty" THEN [act |-> "raise", exc |-> "IndexError"]
       ELSE IF thumb = "none" THEN [act |-> "default"]
       ELSE IF ThumbEntry(v, is_ch) = "empty"
            THEN [act |-> "raise", exc |-> "IndexError"]
       ELSE IF ThumbEntry(v, is_ch) \in {"absent", "nourl"} THEN [act |-> "skip"]
       ELSE [act |-> "submit", path |-> img_path, is_ch |-> is_ch,
             url |-> NormalizeUrl(RawUrl(v, is_ch))]

\* the loop of lines 196-213 without the test of line 204, for comparison
DispatchOutcomeNoMode(v, thumb, files) ==
    LET is_ch == thumb = "channel"
        img_path == ImgPath(is_ch, ChanId(v), v.videoId)
    IN IF v.byline = "empty" THEN [act |-> "raise", exc |-> "IndexError"]
       ELSE IF Exists(img_path, files) THEN [act |-> "hit", path |-> img_path]
       ELSE IF ThumbEntry(v, is_ch) = "empty"
            THEN [act |-> "raise", exc |-> "IndexError"]
       ELSE IF ThumbEntry(v, is_ch) \in {"absent", "nourl"} THEN [act |-> "skip"]
       ELSE [act |-> "submit", path |-> img_path, is_ch |-> is_ch,
             url |-> NormalizeUrl(RawUrl(v, is_ch))]

\* one pass of the loop of lines 196-213 for video v: what it does
DispatchOutcome(v, thumb, files) ==
    LET is_ch == thumb = "channel"
        img_path == ImgPath(is_ch, ChanId(v), v.videoId)
    IN IF v.byline = "empty" THEN [act |-> "raise", exc |-> "IndexError"]
       ELSE IF thumb = "none" THEN [act |-> "default"]
       ELSE IF Exists(img_path, files) THEN [act |-> "hit", path |-> img_path]
       ELSE IF ThumbEntry(v, is_ch) = "empty"
            THEN [act |-> "raise", exc |-> "IndexError"]
       ELSE IF ThumbEntry(v, is_ch) \in {"absent", "nourl"} THEN [act |-> "skip"]
       ELSE [act |-> "submit", path |-> img_path, is_ch |-> is_ch,
             url |-> NormalizeUrl(RawUrl(v, is_ch))]

\* what a download can end with: "ok", or the exception raised by the GET,
\* by raise_for_status, by Image.open or by img.save (lines 106-117)
DownloadOutcomes ==
    {"ok", "ConnectionError", "Timeout", "HTTPError", "UnidentifiedImageError",
     "OSError"}

\* except Exception of download_and_cache (line 119)
TaskHandler(e) == CatchesException(e)

(* ------------------------------ rendering ------------------------------ *)
\* a lookup without the default icon, for comparison
IconOfNoDefault(paths, v_id) == IF v_id \in DOMAIN paths THEN paths[v_id] ELSE NoPath

\* thumb_paths.get(v_id, icon_default) (line 229)
IconOf(paths, v_id) == IF v_id \in DOMAIN paths THEN paths[v_id] ELSE icon_default

\* does building the record of v raise (lines 222-223)?
RenderRaises(v) == v.title = "empty" \/ v.byline = "empty"

TitleOf(v) == IF v.title = "present" THEN <<"title", v.videoId>> ELSE <<"No title">>
ChanOf(v) == IF v.byline = "present" THEN <<"chan", v.chanName>> ELSE <<"Channel">>
DurOf(v) == IF v.lengthText = "present" THEN <<"dur", v.videoId>> ELSE <<"LIVE">>

\* the records appended for one video under a layout (lines 229-239)
VideoRecords(v, paths, layout) ==
    LET current_icon == IconOf(paths, v.videoId)
        link == OpenUrlAction(WatchUrl(v.videoId))
    IN IF layout = "layout_classic"
       THEN << [item |-> "ExtensionResultItem", icon |-> current_icon,
                name |-> TitleOf(v), description |-> DurOf(v) \o ChanOf(v),
                on_enter |-> link] >>
       ELSE IF layout = "layout_inverted"
       THEN << [item |-> "ExtensionResultItem", icon |-> current_icon,
                name |-> ChanOf(v), description |-> TitleOf(v) \o DurOf(v),
                on_enter |-> link] >>
       ELSE IF layout = "layout_minimal"
       THEN << [item |-> "ExtensionSmallResultItem", icon |-> current_icon,
                name |-> ChanOf(v) \o TitleOf(v), description |-> <<>>,
                on_enter |-> link] >>
       ELSE <<>>

\* a loop that puts each new record right behind the first one, for comparison
RECURSIVE RenderLoopInsert(_, _, _, _)
RenderLoopInsert(vs, paths, layout, items) ==
    IF vs = <<>> THEN [exc |-> None, items |-> items]
    ELSE IF RenderRaises(Video(Head(vs)))
         THEN [exc |-> "IndexError", items |-> items]
         ELSE RenderLoopInsert(Tail(vs), paths, layout,
                  <<Head(items)>> \o VideoRecords(Video(Head(vs)), paths, layout)
                      \o Tail(items))

\* the loop of lines 220-239: the items, or "raise" at the first video whose
\* record cannot be built
RECURSIVE RenderLoop(_, _, _, _)
RenderLoop(vs, paths, layout, items) ==
    IF vs = <<>> THEN [exc |-> None, items |-> items]
    ELSE IF RenderRaises(Video(Head(vs)))
         THEN [exc |-> "IndexError", items |-> items]
         ELSE RenderLoop(Tail(vs), paths, layout,
                         items \o VideoRecords(Video(Head(vs)), paths, layout))

(* ----------------------------- format_views ---------------------------- *)
ViewChars == {"1", "9", ",", ".", "M", "i", "l", "k", "b"}
ViewTexts == SeqsUpTo(ViewChars, MaxViewLen)

\* str.lower on one character
LowerChar(c) == CASE c = "M" -> "m" [] c = "K" -> "k" [] c = "B" -> "b" [] OTHER -> c

\* v.lower().replace(',', '.') (line 82)
Normalise(v) ==
    [n \in 1..Len(v) |-> IF LowerChar(v[n]) = "," THEN "." ELSE LowerChar(v[n])]

Digits == {"0", "1", "2", "3", "4", "5", "6", "7", "8", "9"}

\* pat in v
Contains(v, pat) ==
    \E n \in 1..(Len(v) - Len(pat) + 1) : SubSeq(v, n, n + Len(pat) - 1) = pat

\* re.search(r'(\d+[\d.]*)', v): the first digit and the digits and dots that
\* follow it; <<>> when v has no digit (line 83)
NumMatch(v) ==
    IF \A n \in 1..Len(v) : v[n] \notin Digits THEN <<>>
    ELSE LET first == CHOOSE n \in 1..Len(v) :
                          v[n] \in Digits /\ \A m \in 1..(n - 1) : v[m] \notin Digits
             last == CHOOSE n \in first..Len(v) :
                         /\ \A m \in first..n : v[m] \in Digits \cup {"."}
                         /\ n = Len(v) \/ v[n + 1] \notin Digits \cup {"."}
         IN SubSeq(v, first, last)

DigitValue(c) ==
    CASE c = "0" -> 0 [] c = "1" -> 1 [] c = "2" -> 2 [] c = "3" -> 3 [] c = "4" -> 4
      [] c = "5" -> 5 [] c = "6" -> 6 [] c = "7" -> 7 [] c = "8" -> 8 [] c = "9" -> 9

RECURSIVE IntOfDigits(_)
IntOfDigits(ds) ==
    IF ds = <<>> THEN 0
    ELSE 10 * IntOfDigits(SubSeq(ds, 1, Len(ds) - 1)) + DigitValue(ds[Len(ds)])

Dots(m) == Cardinality({n \in 1..Len(m) : m[n] = "."})

\* float(m) raises ValueError on a second dot (line 86)
FloatRaises(m) == Dots(m) > 1

\* int(float(m)) for a match with at most one dot: the digits before the dot
IntOfFloat(m) ==
    IF Dots(m) = 0 THEN IntOfDigits(m)
    ELSE IntOfDigits(SubSeq(m, 1, (CHOOSE n \in 1..Len(m) : m[n] = ".") - 1))

\* the defaults of lines 88-90
suffix_billion == "bi"
suffix_million == "mi"
suffix_thousand == " mil"

\* the returned text: "" or the integer, a separator and a suffix
NoViews == [empty |-> TRUE, num |-> 0, sep |-> "", suffix |-> ""]
ViewsText(num, sep, suffix) == [empty |-> FALSE, num |-> num, sep |-> sep, suffix |-> suffix]

\* the test of line 94
IsMillion(v) ==
    Contains(v, <<"m", "i">>)
        \/ (Contains(v, <<"m">>) /\ ~Contains(v, <<"m", "i", "l">>)
                /\ ~Contains(v, <<"k">>))

\* format_views (lines 78-100)
FormatViews(text) ==
    IF text = <<>> THEN NoViews
    ELSE LET v == Normalise(text)
             m == NumMatch(v)
         IN IF m = <<>> THEN NoViews
            ELSE IF FloatRaises(m) THEN NoViews
            ELSE IF Contains(v, <<"b", "i">>) \/ Contains(v, <<"b">>)
                 THEN ViewsText(IntOfFloat(m), " ", suffix_billion)
            ELSE IF IsMillion(v)
                 THEN ViewsText(IntOfFloat(m), " ", suffix_million)
            ELSE IF Contains(v, <<"m", "i", "l">>) \/ Contains(v, <<"k">>)
                 THEN ViewsText(IntOfFloat(m), "", suffix_thousand)
            ELSE ViewsText(IntOfFloat(m), "", "")

(* ----------------------------- cleanup_cache --------------------------- *)
\* the image files earlier runs can have left in cache_dir
StartFiles == {<<"c", "UCX">>, <<"v", "a">>}

\* an image older than every other one
Leftover == <<"v", "old">>

NoFiles == [f \in {} |-> 0]

\* the cache directories found at startup, as file -> modification time
StartDirs ==
    UNION { [files -> 1..MaxTime] : files \in SUBSET StartFiles }
      \cup { [f \in StartFiles \cup {Leftover} |-> IF f = Leftover THEN 0 ELSE d[f]] :
               d \in [StartFiles -> 1..MaxTime] }

\* os.listdir: the files in any order
ListDir(files) ==
    {order \in [1..Cardinality(files) -> files] :
        \A j, k \in 1..Cardinality(files) : order[j] = order[k] => j = k}

\* one step of the stable sort: x goes behind the entries that are not newer
InsertByKey(s, x, mtime) ==
    LET n == Cardinality({j \in 1..Len(s) : mtime[s[j]] <= mtime[x]})
    IN SubSeq(s, 1, n) \o <<x>> \o SubSeq(s, n + 1, Len(s))

\* a sort that puts the newest first, for comparison
RECURSIVE SortNewestFirst(_, _)
SortNewestFirst(files, mtime) ==
    IF files = <<>> THEN <<>>
    ELSE LET s == SortNewestFirst(SubSeq(files, 1, Len(files) - 1), mtime)
             x == files[Len(files)]
             n == Cardinality({j \in 1..Len(s) : mtime[s[j]] >= mtime[x]})
         IN SubSeq(s, 1, n) \o <<x>> \o SubSeq(s, n + 1, Len(s))

\* files.sort(key=os.path.getmtime) (line 41)
RECURSIVE SortByMtime(_, _)
SortByMtime(files, mtime) ==
    IF files = <<>> THEN <<>>
    ELSE InsertByKey(SortByMtime(SubSeq(files, 1, Len(files) - 1), mtime),
                     files[Len(files)], mtime)

\* the files left by cleanup_cache (lines 39-43)
CleanupCache(files, mtime, max_files) ==
    IF Len(files) > max_files
    THEN LET sorted == SortByMtime(files, mtime)
             removed == {sorted[n] : n \in 1..(Len(files) - max_files)}
         IN {files[n] : n \in 1..Len(files)} \ removed
    ELSE {files[n] : n \in 1..Len(files)}

\* __init__ has returned
BootUp == [pc |-> "up", mtime |-> NoFiles, max_files |-> 0, before |-> {}]

(* ------------------------------- state --------------------------------- *)
VARIABLES
    nq,            \* query events delivered so far
    pc,            \* where on_event is: "idle", "Init", "PageFetched",
                   \* "Extracted", "Coordinating", "ThumbnailsResolved", "done"
    query,         \* the stripped query of the current event
    page,          \* r.text of the search request
    videos,        \* the video renderers collected by lines 181-191
    pref_thumb,    \* preferences['thumb_type']
    pref_layout,   \* preferences['search_layout']
    i,             \* the position of the loop of line 196 in videos
    thumb_paths,   \* v_id -> icon path
    tasks,         \* the futures submitted to extension.executor, oldest first
    cache,         \* the image files present in cache_dir
    result,        \* the list handed to RenderResultListAction
    terminal,      \* how the current query ended, "none" while it runs
    trace,         \* the values of pc the current query went through
    fault,         \* the exception that reached line 243, if any
    propagated,    \* an exception left on_event
    pageRequests,  \* search requests issued by the current query
    pageOutcome,   \* how the search request ended: "none", "ok", an exception
    ex,            \* the extractor on its own: input and output
    vw,            \* format_views on its own: input and output
    boot           \* where __init__ is, and the cache directory it found

vars == <<nq, pc, query, page, videos, pref_thumb, pref_layout, i, thumb_paths,
          tasks, cache, result, terminal, trace, fault, propagated,
          pageRequests, pageOutcome, ex, vw, boot>>

EmptyMap == [x \in {} |-> x]

VwIdle == [pc |-> "off", v |-> <<>>, out |-> NoViews]

ExIdle == [pc |-> "off", contents |-> <<>>, pref_max |-> 0, videos |-> <<>>]

InitPipeline ==
    /\ nq = 0
    /\ pc = "idle"
    /\ query = <<>>
    /\ page = <<>>
    /\ videos = <<>>
    /\ pref_thumb = "channel"
    /\ pref_layout = "layout_inverted"
    /\ i = 1
    /\ thumb_paths = EmptyMap
    /\ tasks = <<>>
    /\ result = <<>>
    /\ terminal = "none"
    /\ trace = <<>>
    /\ fault = None
    /\ propagated = FALSE
    /\ pageRequests = 0
    /\ pageOutcome = "none"

\* the extension constructed, with some images left by earlier runs
Init ==
    /\ InitPipeline
    /\ cache \in SUBSET StartFiles
    /\ ex = ExIdle
    /\ vw = VwIdle
    /\ boot = BootUp

(* ------------------------- leaving on_event ---------------------------- *)
\* return RenderResultListAction(records)
Return(records, term) ==
    /\ pc' = "done"
    /\ result' = records
    /\ terminal' = term

\* an exception raised inside the try of line 137 and caught by no inner
\* handler: lines 243-252
RaiseOuter(e) ==
    /\ fault' = e
    /\ IF OuterHandler(e)
       THEN /\ Return(<<ErrorRecord>>, "DegradedInternal")
            /\ propagated' = FALSE
       ELSE /\ Return(<<>>, "none")
            /\ propagated' = TRUE

(* ------------------------------ on_event ------------------------------- *)
\* futures of earlier queries that have returned are unreachable garbage
Live(ts) == SelectSeq(ts, LAMBDA t : t.st # "done")

\* lines 125-135: a query event arrives
OnEvent(arg) ==
    /\ boot.pc = "up"
    /\ pc \in {"idle", "done"}
    /\ nq < MaxQueries
    /\ nq' = nq + 1
    /\ query' = QueryOf(arg)
    /\ page' = <<>>
    /\ videos' = <<>>
    /\ i' = 1
    /\ thumb_paths' = EmptyMap
    /\ tasks' = Live(tasks)
    /\ fault' = None
    /\ propagated' = FALSE
    /\ pageRequests' = 0
    /\ pageOutcome' = "none"
    /\ IF TooShort(QueryOf(arg))
       THEN /\ Return(<<PromptRecord>>, "Prompt")
            /\ trace' = <<>>
       ELSE /\ pc' = "Init"
            /\ result' = <<>>
            /\ terminal' = "none"
            /\ trace' = <<"Init">>
    /\ pref_thumb' = "channel"
    /\ pref_layout' = "layout_inverted"
    /\ UNCHANGED <<cache, ex, vw, boot>>

\* lines 138-150: the search request
FetchPage(outcome, doc) ==
    /\ pc = "Init"
    /\ pageRequests' = pageRequests + 1
    /\ pageOutcome' = outcome
    /\ IF outcome = "ok"
       THEN /\ page' = doc
            /\ pc' = "PageFetched"
            /\ trace' = Append(trace, "PageFetched")
            /\ UNCHANGED <<result, terminal, fault, propagated>>
       ELSE /\ doc = <<>>
            /\ UNCHANGED <<page, trace>>
            /\ IF FetchHandler(outcome)
               THEN /\ Return(<<NetworkErrorRecord>>, "DegradedNetwork")
                    /\ UNCHANGED <<fault, propagated>>
               ELSE RaiseOuter(outcome)
    /\ UNCHANGED <<nq, query, videos, pref_thumb, pref_layout, i, thumb_paths,
                   tasks, cache, ex, vw, boot>>

\* lines 152-163 when the payload cannot be extracted
ExtractFails ==
    /\ pc = "PageFetched"
    /\ ParsePage(page) # "ok"
    /\ IF ParseHandler(ParsePage(page))
       THEN /\ Return(<<FallbackRecord(query)>>, "DegradedParse")
            /\ UNCHANGED <<fault, propagated>>
       ELSE RaiseOuter(ParsePage(page))
    /\ UNCHANGED <<nq, query, page, videos, pref_thumb, pref_layout, i,
                   thumb_paths, tasks, cache, trace, pageRequests, pageOutcome, ex, vw, boot>>

\* lines 152-166 when json.loads gives something that is no dict
ExtractNotDict ==
    /\ pc = "PageFetched"
    /\ ParsePage(page) = "ok"
    /\ RaiseOuter("AttributeError")
    /\ UNCHANGED <<nq, query, page, videos, pref_thumb, pref_layout, i,
                   thumb_paths, tasks, cache, trace, pageRequests, pageOutcome, ex, vw, boot>>

\* what lines 181-191 can collect from a payload under a max_results
ExtractedLists ==
    { ExtractVideos(contents, pref_max) :
        contents \in PagePayloads, pref_max \in 1..MaxM }

\* lines 152-194: the payload is a dict, the preferences are read and the
\* videos are collected from its sections
Extract(vs, thumb) ==
    /\ pc = "PageFetched"
    /\ ParsePage(page) = "ok"
    /\ videos' = vs
    /\ pref_thumb' = thumb
    /\ i' = 1
    /\ thumb_paths' = EmptyMap
    /\ page' = <<>>
    /\ pc' = "Extracted"
    /\ trace' = Append(trace, "Extracted")
    /\ UNCHANGED <<nq, query, pref_layout, tasks, cache, result, terminal,
                   fault, propagated, pageRequests, pageOutcome, ex, vw, boot>>

\* extension.executor.submit(extension.download_and_cache, img_path, t_url, is_ch)
NewTask(v_id, d) ==
    [q |-> nq, v_id |-> v_id, path |-> d.path, url |-> d.url, is_ch |-> d.is_ch,
     existed |-> Exists(d.path, cache), st |-> "queued", res |-> NoPath,
     raised |-> FALSE, fetches |-> 0, collected |-> FALSE, pred |-> {}]

\* thumb_futures[executor.submit(...)] = v_id (line 213)
Submit(ts, v_id, d) == Append(ts, NewTask(v_id, d))

\* lines 196-213: one pass of the loop over videos
Dispatch ==
    /\ pc = "Extracted"
    /\ i <= Len(videos)
    /\ LET v == Video(videos[i])
           d == DispatchOutcome(v, pref_thumb, cache)
       IN /\ IF d.act = "raise"
             THEN /\ RaiseOuter(d.exc)
                  /\ UNCHANGED <<i, thumb_paths, tasks>>
             ELSE /\ i' = i + 1
                  /\ thumb_paths' =
                        IF d.act = "default"
                        THEN (v.videoId :> icon_default) @@ thumb_paths
                        ELSE IF d.act = "hit"
                        THEN (v.videoId :> d.path) @@ thumb_paths
                        ELSE thumb_paths
                  /\ tasks' = IF d.act = "submit"
                              THEN Submit(tasks, v.videoId, d)
                              ELSE tasks
                  /\ UNCHANGED <<pc, result, terminal, fault, propagated>>
    /\ UNCHANGED <<nq, query, page, videos, pref_thumb, pref_layout, cache,
                   trace, pageRequests, pageOutcome, ex, vw, boot>>

\* line 215: the loop of line 196 is over, as_completed starts
Coordinate ==
    /\ pc = "Extracted"
    /\ i > Len(videos)
    /\ pc' = "Coordinating"
    /\ UNCHANGED <<nq, query, page, videos, pref_thumb, pref_layout, i,
                   thumb_paths, tasks, cache, result, terminal, trace, fault,
                   propagated, pageRequests, pageOutcome, ex, vw, boot>>

\* the futures of the current query
Mine(k) == tasks[k].q = nq

\* lines 215-218: as_completed hands over a future that is done
Collect(k) ==
    /\ pc = "Coordinating"
    /\ Mine(k)
    /\ tasks[k].st = "done"
    /\ ~tasks[k].collected
    /\ tasks' = [tasks EXCEPT ![k].collected = TRUE]
    /\ IF tasks[k].raised
       THEN /\ RaiseOuter("OSError")
            /\ UNCHANGED thumb_paths
       ELSE /\ thumb_paths' =
                 (tasks[k].v_id :>
                    (IF tasks[k].res # NoPath THEN tasks[k].res ELSE icon_default))
                 @@ thumb_paths
            /\ UNCHANGED <<pc, result, terminal, fault, propagated>>
    /\ UNCHANGED <<nq, query, page, videos, pref_thumb, pref_layout, i, cache,
                   trace, pageRequests, pageOutcome, ex, vw, boot>>

\* a coordinator that stops waiting before the last future, for comparison
AllCollectedEarly(ts, n) ==
    \A j, k \in 1..Len(ts) : (j # k /\ ts[j].q = n /\ ts[k].q = n) =>
        (ts[j].collected \/ ts[k].collected)

\* as_completed is exhausted once it has handed over every future
AllCollected(ts, n) ==
    \A k \in 1..Len(ts) : ts[k].q = n => ts[k].collected

\* the loop of line 215 ends
CoordinatorReturn ==
    /\ pc = "Coordinating"
    /\ AllCollected(tasks, nq)
    /\ pc' = "ThumbnailsResolved"
    /\ trace' = Append(trace, "ThumbnailsResolved")
    /\ UNCHANGED <<nq, query, page, videos, pref_thumb, pref_layout, i,
                   thumb_paths, tasks, cache, result, terminal, fault,
                   propagated, pageRequests, pageOutcome, ex, vw, boot>>

\* lines 170 and 220-241: the layout is read and the items are built
Render(layout) ==
    /\ pc = "ThumbnailsResolved"
    /\ pref_layout' = layout
    /\ LET r == RenderLoop(videos, thumb_paths, layout, <<BrowserRecord(query)>>)
       IN IF r.exc # None
          THEN /\ RaiseOuter(r.exc)
               /\ UNCHANGED trace
          ELSE /\ Return(r.items, "Rendered")
               /\ trace' = Append(trace, "Rendered")
               /\ UNCHANGED <<fault, propagated>>
    /\ UNCHANGED <<nq, query, page, videos, pref_thumb, i, thumb_paths, tasks,
                   cache, pageRequests, pageOutcome, ex, vw, boot>>

(* ---------------------------- worker pool ------------------------------ *)
Running(ts) == Cardinality({k \in 1..Len(ts) : ts[k].st = "running"})

\* the calls for the same path that have returned: fetches made, and whether
\* a path came back
Returned(ts, path) ==
    { [fetches |-> ts[k].fetches, ok |-> ts[k].res # NoPath] :
        k \in {j \in 1..Len(ts) : ts[j].st = "done" /\ ts[j].path = path} }

\* a pool without a worker, for comparison
CanStartNoWorker(ts, k) ==
    /\ ts[k].st = "queued"
    /\ Running(ts) < 0

\* a worker is free and task k is the oldest one waiting
CanStart(ts, k) ==
    /\ ts[k].st = "queued"
    /\ \A j \in 1..(k - 1) : ts[j].st # "queued"
    /\ Running(ts) < PoolSize

\* lines 103-104: a worker takes the task and looks for the file
TaskStart(k) ==
    /\ CanStart(tasks, k)
    /\ tasks' = [tasks EXCEPT
          ![k].pred = Returned(tasks, tasks[k].path),
          ![k].st = IF Exists(tasks[k].path, cache) THEN "done" ELSE "running",
          ![k].res = IF Exists(tasks[k].path, cache) THEN tasks[k].path ELSE NoPath]
    /\ UNCHANGED <<nq, pc, query, page, videos, pref_thumb, pref_layout, i,
                   thumb_paths, cache, result, terminal, trace, fault,
                   propagated, pageRequests, pageOutcome, ex, vw, boot>>

\* a worker that repeats a failed request once, for comparison
TaskFinishRetry(k, outcome) ==
    /\ tasks[k].st = "running"
    /\ IF outcome = "ok"
       THEN /\ cache' = cache \cup {tasks[k].path}
            /\ tasks' = [tasks EXCEPT ![k].st = "done", ![k].fetches = @ + 1,
                                       ![k].res = tasks[k].path]
       ELSE /\ cache' = cache
            /\ tasks' = [tasks EXCEPT
                  ![k].st = IF tasks[k].fetches = 0 THEN "running" ELSE "done",
                  ![k].fetches = @ + 1,
                  ![k].res = NoPath,
                  ![k].raised = ~TaskHandler(outcome)]
    /\ UNCHANGED <<nq, pc, query, page, videos, pref_thumb, pref_layout, i,
                   thumb_paths, result, terminal, trace, fault, propagated,
                   pageRequests, pageOutcome, ex, vw, boot>>

\* lines 105-120: the request, the image processing and the save
TaskFinish(k, outcome) ==
    /\ tasks[k].st = "running"
    /\ IF outcome = "ok"
       THEN /\ cache' = cache \cup {tasks[k].path}
            /\ tasks' = [tasks EXCEPT ![k].st = "done", ![k].fetches = @ + 1,
                                       ![k].res = tasks[k].path]
       ELSE /\ cache' = cache
            /\ tasks' = [tasks EXCEPT ![k].st = "done", ![k].fetches = @ + 1,
                                       ![k].res = NoPath,
                                       ![k].raised = ~TaskHandler(outcome)]
    /\ UNCHANGED <<nq, pc, query, page, videos, pref_thumb, pref_layout, i,
                   thumb_paths, result, terminal, trace, fault, propagated,
                   pageRequests, pageOutcome, ex, vw, boot>>

(* ------------------------- the whole program --------------------------- *)
Next ==
    \/ \E arg \in Arguments : OnEvent(arg)
    \/ \E doc \in Docs : FetchPage("ok", doc)
    \/ \E e \in RequestExceptions : FetchPage(e, <<>>)
    \/ ExtractFails
    \/ ExtractNotDict
    \/ \E vs \in ExtractedLists, thumb \in ThumbModes : Extract(vs, thumb)
    \/ Dispatch
    \/ Coordinate
    \/ \E k \in 1..Len(tasks) : Collect(k)
    \/ CoordinatorReturn
    \/ \E layout \in Layouts : Render(layout)
    \/ \E k \in 1..Len(tasks) : TaskStart(k)
    \/ \E k \in 1..Len(tasks), outcome \in DownloadOutcomes : TaskFinish(k, outcome)

Spec == Init /\ [][Next]_vars

\* the steps of on_event after the event has arrived, by the place they
\* start from
Flow ==
    \/ /\ pc = "Init"
       /\ \/ \E doc \in Docs : FetchPage("ok", doc)
          \/ \E e \in RequestExceptions : FetchPage(e, <<>>)
    \/ /\ pc = "PageFetched"
       /\ \/ ExtractFails
          \/ ExtractNotDict
          \/ \E vs \in ExtractedLists, thumb \in ThumbModes : Extract(vs, thumb)
    \/ /\ pc \in {"Extracted", "Coordinating", "ThumbnailsResolved"}
       /\ \/ Dispatch
          \/ Coordinate
          \/ \E k \in 1..Len(tasks) : Collect(k)
          \/ CoordinatorReturn
          \/ \E layout \in Layouts : Render(layout)

\* the steps of the executor's threads
Workers ==
    \/ \E k \in 1..Len(tasks) : TaskStart(k)
    \/ \E k \in 1..Len(tasks), outcome \in DownloadOutcomes : TaskFinish(k, outcome)

\* the thread of on_event keeps running, every request returns or times out
\* (timeout=8 at line 142, timeout=4 at line 107), and the pool's threads
\* are scheduled
FairSpec == Spec /\ WF_vars(Flow) /\ WF_vars(Workers)

(* ---------------------- the program from its start --------------------- *)
\* before __init__: a cache directory left by earlier runs
StartupInit ==
    /\ InitPipeline
    /\ ex = ExIdle
    /\ vw = VwIdle
    /\ \E dir \in StartDirs, max_files \in 1..MaxCap :
          /\ cache = DOMAIN dir
          /\ boot = [pc |-> "start", mtime |-> dir, max_files |-> max_files,
                     before |-> DOMAIN dir]

\* line 27: self.cleanup_cache()
Startup ==
    /\ boot.pc = "start"
    /\ \E files \in ListDir(cache) :
          cache' = CleanupCache(files, boot.mtime, boot.max_files)
    /\ boot' = [boot EXCEPT !.pc = "trimmed"]
    /\ UNCHANGED <<nq, pc, query, page, videos, pref_thumb, pref_layout, i,
                   thumb_paths, tasks, result, terminal, trace, fault,
                   propagated, pageRequests, pageOutcome, ex, vw>>

\* lines 28-35: the translations, the executor and the session
Ready ==
    /\ boot.pc = "trimmed"
    /\ boot' = BootUp
    /\ UNCHANGED <<nq, pc, query, page, videos, pref_thumb, pref_layout, i,
                   thumb_paths, tasks, cache, result, terminal, trace, fault,
                   propagated, pageRequests, pageOutcome, ex, vw>>

StartupNext == Startup \/ Ready \/ Next

SpecStartup == StartupInit /\ [][StartupNext]_vars

(* ------------------------ the extractor by itself ---------------------- *)
\* lines 181-191 applied to a payload and a max_results
ExInit ==
    /\ InitPipeline
    /\ cache = {}
    /\ \E contents \in ScanPayloads, pref_max \in 1..MaxM :
          ex = [pc |-> "in", contents |-> contents, pref_max |-> pref_max,
                videos |-> <<>>]
    /\ vw = VwIdle
    /\ boot = BootUp

ExApply ==
    /\ ex.pc = "in"
    /\ ex' = [ex EXCEPT !.pc = "out",
                         !.videos = ExtractVideos(ex.contents, ex.pref_max)]
    /\ UNCHANGED <<nq, pc, query, page, videos, pref_thumb, pref_layout, i,
                   thumb_paths, tasks, cache, result, terminal, trace, fault,
                   propagated, pageRequests, pageOutcome, vw, boot>>

ExNext == ExApply

SpecExtractor == ExInit /\ [][ExNext]_vars

(* ------------------------- format_views by itself ---------------------- *)
ViewsInit ==
    /\ InitPipeline
    /\ cache = {}
    /\ ex = ExIdle
    /\ \E text \in ViewTexts : vw = [pc |-> "in", v |-> text, out |-> NoViews]
    /\ boot = BootUp

ViewsApply ==
    /\ vw.pc = "in"
    /\ vw' = [vw EXCEPT !.pc = "out", !.out = FormatViews(vw.v)]
    /\ UNCHANGED <<nq, pc, query, page, videos, pref_thumb, pref_layout, i,
                   thumb_paths, tasks, cache, result, terminal, trace, fault,
                   propagated, pageRequests, pageOutcome, ex, boot>>

ViewsNext == ViewsApply

SpecViews == ViewsInit /\ [][ViewsNext]_vars

(* ============================== properties ============================= *)
\* the futures the current query submitted
MyTasks == {k \in 1..Len(tasks) : tasks[k].q = nq}

Pending(k) == tasks[k].st # "done"

\* C1: whatever the query and whatever the outcome of the page request, of
\* the extraction and of every thumbnail task, on_event hands back a list
\* with at least one record.
C1_NeverEmpty == pc = "done" => Len(result) >= 1

\* a query that reached Rendered although one of its thumbnail tasks failed
\* and another one succeeded
C1_Witness ==
    /\ pc = "done"
    /\ terminal = "Rendered"
    /\ \E j, k \in MyTasks : tasks[j].res = NoPath /\ tasks[k].res # NoPath
    /\ Len(result) >= 1

\* C2: an exception raised in the pipeline after the length check and caught
\* by neither the network branch nor the parse branch ends the query in
\* Degraded(internal), with exactly one generic error record that has no
\* activation URL; no exception ever leaves on_event.
C2_InternalFault ==
    /\ ~propagated
    /\ fault # None =>
         /\ pc = "done"
         /\ terminal = "DegradedInternal"
         /\ Len(result) = 1
         /\ result[1].name = i18n("search_error", "Ops! Algo deu errado na busca")
         /\ result[1].on_enter = NoAction

\* an IndexError in the loop of line 196 while a thumbnail task of the same
\* query is still waiting or running
C2_Witness ==
    /\ fault = "IndexError"
    /\ terminal = "DegradedInternal"
    /\ \E k \in MyTasks : Pending(k)

\* C3: a query whose trimmed length is below 3 issues no search request and
\* no thumbnail fetch, and gets exactly one prompt record.
C3_ShortQuery ==
    (nq > 0 /\ Len(query) < 3) =>
        /\ pc = "done"
        /\ terminal = "Prompt"
        /\ result = <<PromptRecord>>
        /\ pageRequests = 0
        /\ MyTasks = {}

\* a query of two characters has been answered
C3_Witness == nq > 0 /\ Len(query) = 2 /\ pc = "done"

\* C4: in channel mode two videos of the same channel have the same image
\* path, and a query submits at most one thumbnail task per image path.
C4_OneTaskPerKey ==
    pref_thumb = "channel" =>
        \A j, k \in MyTasks : tasks[j].path = tasks[k].path => j = k

\* C5 as stated: of two calls of download_and_cache for the same path, the
\* second started after the first returned, exactly one fetches.
C5_ExactlyOneFetch ==
    \A k \in 1..Len(tasks) : tasks[k].st = "done" =>
        \A p \in tasks[k].pred : p.fetches + tasks[k].fetches = 1

\* C5 amended: when the first call returned the path, the second call for
\* that path makes no fetch and returns the path too, so that the two make
\* as many fetches as the first one did, one at most.
C5_NoRefetchAfterSuccess ==
    \A k \in 1..Len(tasks) : tasks[k].st = "done" =>
        \A p \in tasks[k].pred : p.ok =>
            /\ tasks[k].fetches = 0
            /\ tasks[k].res = tasks[k].path
            /\ p.fetches + tasks[k].fetches <= 1
            /\ p.fetches = 1 => p.fetches + tasks[k].fetches = 1

\* a call that started after a call for the same path had fetched and saved
\* the image, and that has returned
C5_Witness ==
    \E k \in 1..Len(tasks) :
        /\ tasks[k].st = "done"
        /\ \E p \in tasks[k].pred : p.ok /\ p.fetches = 1

\* C6: a record whose image file exists when the loop of line 196 reaches it
\* gets that path without any request and is not submitted; a task that
\* finds the file when a worker takes it returns the path without a request;
\* every task submitted was a miss when it was submitted.
C6_OnlyMisses == \A k \in 1..Len(tasks) : ~tasks[k].existed

C6_DispatchHit ==
    (pc = "Extracted" /\ i <= Len(videos) /\ i' = i + 1 /\ pref_thumb # "none") =>
        LET v == Video(videos[i])
            path == ImgPath(pref_thumb = "channel", ChanId(v), v.videoId)
        IN path \in cache =>
             /\ tasks' = tasks
             /\ cache' = cache
             /\ pageRequests' = pageRequests
             /\ v.videoId \in DOMAIN thumb_paths'
             /\ thumb_paths'[v.videoId] = path

C6_WorkerHit ==
    Len(tasks') >= Len(tasks) =>
        \A k \in 1..Len(tasks) :
            (tasks[k].st = "queued" /\ tasks'[k].st # "queued"
                /\ tasks[k].path \in cache) =>
                /\ tasks'[k].st = "done"
                /\ tasks'[k].res = tasks[k].path
                /\ tasks'[k].fetches = 0
                /\ cache' = cache

\* C6: the three parts above, in every state and at every step
C6_CacheHit == []C6_OnlyMisses /\ [][C6_DispatchHit /\ C6_WorkerHit]_vars

\* a rendered video record carries a cached image although the query
\* submitted no task at all
C6_Witness ==
    /\ terminal = "Rendered"
    /\ MyTasks = {}
    /\ \E n \in 1..Len(result) : result[n].icon \in cache

\* C7: with N tasks submitted, the items are built only after all N have
\* settled and been handed over by as_completed; no video is rendered while
\* its task is pending.
C7_Join ==
    (pc = "ThumbnailsResolved" \/ terminal = "Rendered") =>
        \A k \in MyTasks :
            /\ tasks[k].st = "done"
            /\ tasks[k].collected
            /\ tasks[k].v_id \in DOMAIN thumb_paths

\* a query rendered after two tasks, one failed and one successful
C7_Witness ==
    /\ terminal = "Rendered"
    /\ Cardinality(MyTasks) >= 2
    /\ \E j, k \in MyTasks : tasks[j].res = NoPath /\ tasks[k].fetches = 1
                              /\ tasks[k].res # NoPath

\* every video of a payload, in document order
VideosInOrder(contents) == SelectSeq(Concat(contents), IsVideo)

\* C8: from a payload with n video entries and a maximum M >= 1 the extractor
\* collects the first min(n, M) video entries in document order; other items
\* are skipped and do not count.
C8_Truncation ==
    ex.pc = "out" =>
        LET all == VideosInOrder(ex.contents)
        IN ex.videos = SubSeq(all, 1, Min(Len(all), ex.pref_max))

\* more videos than the maximum, spread over two sections behind an item
\* that is no video, and the result takes videos from both sections
C8_Witness ==
    /\ ex.pc = "out"
    /\ Len(ex.contents) = 2
    /\ Len(VideosInOrder(ex.contents)) > ex.pref_max
    /\ ex.contents[1] = <<"other", "VA">>
    /\ ex.contents[2] = <<"VB", "VA">>
    /\ ex.videos = <<"VA", "VB">>

\* the text behind the first marker prefix holds no marker suffix
SuffixAbsent(doc) ==
    Occurs(doc, "PRE") /\ ~Occurs(Split(doc, "PRE")[2], "SUF")

\* the text between the markers is no JSON value
BetweenUnparsable(doc) ==
    /\ Occurs(doc, "PRE")
    /\ Occurs(Split(doc, "PRE")[2], "SUF")
    /\ ~JsonLoads(Split(Split(doc, "PRE")[2], "SUF")[1])

\* C9: after a successful page request, a page without the marker prefix,
\* or without the marker suffix behind it, or with unparsable text between
\* them ends the query in Degraded(parse): one fallback record with the
\* search URL, no thumbnail task, no fault.
C9_ParseFailure ==
    [][(pc = "PageFetched" /\ pc' # pc
          /\ (~Occurs(page, "PRE") \/ SuffixAbsent(page) \/ BetweenUnparsable(page)))
        => /\ terminal' = "DegradedParse"
           /\ result' = <<FallbackRecord(query)>>
           /\ tasks' = tasks
           /\ fault' = None]_vars

\* C10: a search request that fails takes the query from Init straight to
\* Degraded(network): one informational record without activation URL, no
\* extraction and no thumbnail task.
C10_NetworkFailure ==
    pageOutcome \in RequestExceptions =>
        /\ pc = "done"
        /\ terminal = "DegradedNetwork"
        /\ Len(result) = 1
        /\ result[1].name = i18n("network_error", "Erro de conexao")
        /\ result[1].on_enter = NoAction
        /\ trace = <<"Init">>
        /\ page = <<>>
        /\ videos = <<>>
        /\ MyTasks = {}
        /\ fault = None

\* the search page answered with a non-success status
C10_Witness == pageOutcome = "HTTPError" /\ terminal = "DegradedNetwork"

\* the task has fetched and saved the image (line 117)
Wrote(k) == tasks[k].st = "done" /\ tasks[k].fetches = 1 /\ tasks[k].res # NoPath

\* C11: the image file of a cache key is written at most once: no two
\* thumbnail tasks, of the same query or of different ones, save the same path.
C11_WriteOnce ==
    \A j, k \in 1..Len(tasks) :
        (Wrote(j) /\ Wrote(k) /\ tasks[j].path = tasks[k].path) => j = k

\* the three layouts that append a record per video
KnownLayouts == {"layout_classic", "layout_inverted", "layout_minimal"}

\* the query has reached Rendered under one of the three layouts
RenderedKnown == terminal = "Rendered" /\ pref_layout \in KnownLayouts

\* C12: a query that reaches Rendered with k extracted records under one of
\* the three layouts returns k+1 records: first the browser record with the
\* search URL, then one record per extracted video in document order; with
\* k = 0 the single browser record, not an error record.
C12_Assembly ==
    RenderedKnown =>
        /\ Len(result) = Len(videos) + 1
        /\ result[1].on_enter = SearchUrl(query)
        /\ result[1].name = <<"'", query, "'">>
        /\ result[1].description[1] = "search_browser_line2"
        /\ \A n \in 1..Len(videos) :
              result[n + 1].on_enter = WatchUrl(Video(videos[n]).videoId)

\* two videos rendered, each after a thumbnail task of its own
C12_Witness ==
    /\ RenderedKnown
    /\ Len(videos) = 2
    /\ Cardinality(MyTasks) = 2
    /\ Len(result) = 3

\* the extracted video that carries this id
IndexOfVideo(v_id) == CHOOSE n \in 1..Len(videos) : Video(videos[n]).videoId = v_id

\* a video entry whose lists make lines 209 or 222 raise
Defective(name) ==
    Video(name).title = "empty" \/ Video(name).byline = "empty"
        \/ Video(name).chanThumb = "empty" \/ Video(name).vidThumb = "empty"

\* C13: a thumbnail task that fails gives the default icon to its own record
\* only; the query still reaches Rendered, every other record keeps the
\* icon of its own task, and a video without thumbnail URL gets the default
\* icon.
C13_FailureIsolation ==
    /\ RenderedKnown =>
          /\ \A k \in MyTasks :
                result[IndexOfVideo(tasks[k].v_id) + 1].icon =
                    (IF tasks[k].res = NoPath THEN icon_default ELSE tasks[k].res)
          /\ \A n \in 1..Len(videos) :
                (pref_thumb # "none"
                   /\ ThumbEntry(Video(videos[n]), pref_thumb = "channel")
                         \in {"absent", "nourl"}
                   /\ ImgPath(pref_thumb = "channel", ChanId(Video(videos[n])),
                              Video(videos[n]).videoId) \notin cache)
                  => result[n + 1].icon = icon_default
    /\ (terminal = "DegradedInternal" /\ Len(trace) >= 3) =>
          \E n \in 1..Len(videos) : Defective(videos[n])

\* rendered with one task failed and one successful, and a video without
\* thumbnail URL among the records
C13_Witness ==
    /\ RenderedKnown
    /\ \E k \in MyTasks : tasks[k].res = NoPath /\ tasks[k].fetches = 1
    /\ \E k \in MyTasks : tasks[k].res # NoPath
            /\ result[IndexOfVideo(tasks[k].v_id) + 1].icon = tasks[k].res

\* rendered with a video that has no thumbnail URL
C13_WitnessNoUrl ==
    /\ RenderedKnown
    /\ pref_thumb = "video"
    /\ \E n \in 1..Len(videos) : videos[n] = "VC" /\ result[n + 1].icon = icon_default

\* the markers "mil" and "k" of a thousand
HasThousandMarker(v) == Contains(v, <<"m", "i", "l">>) \/ Contains(v, <<"k">>)

\* the only magnitude marker of the text is a thousand marker: no "b", and
\* every "m" begins "mil"
ThousandOnly(v) ==
    /\ HasThousandMarker(v)
    /\ ~Contains(v, <<"b">>)
    /\ \A n \in 1..Len(v) :
          v[n] = "m" => (n + 2 <= Len(v) /\ v[n + 1] = "i" /\ v[n + 2] = "l")

\* C14: format_views puts billion before million before thousand and takes
\* a lone "m" as million only when no thousand marker is present, so a text
\* whose magnitude marker is a thousand marker gets the thousand suffix; the
\* number is truncated, not rounded.
C14_Magnitude ==
    (vw.pc = "out" /\ ~vw.out.empty) =>
        LET v == Normalise(vw.v)
        IN /\ Contains(v, <<"b">>) => vw.out.suffix = suffix_billion
           /\ (~Contains(v, <<"b">>) /\ Contains(v, <<"m">>) /\ ~HasThousandMarker(v))
                 => vw.out.suffix = suffix_million
           /\ ThousandOnly(v) => vw.out.suffix = suffix_thousand
           /\ vw.out.num = IntOfFloat(NumMatch(v))

\* C15: whatever optional fields a video entry lacks, and whichever of its
\* lists has no first element, the defaults are used: once the videos are
\* extracted the query reaches Rendered, with a record for every video.
C15_Defaults ==
    (pc = "done" /\ Len(trace) >= 3) =>
        /\ terminal = "Rendered"
        /\ pref_layout \in KnownLayouts => Len(result) = Len(videos) + 1

\* the states of a query, in the order of the code
StateOrder == <<"Init", "PageFetched", "Extracted", "ThumbnailsResolved", "Rendered">>

Terminals ==
    {"Prompt", "Rendered", "DegradedNetwork", "DegradedParse", "DegradedInternal"}

\* the states visited so far are an initial part of StateOrder
C16_InOrder ==
    Len(trace) <= Len(StateOrder) /\ trace = SubSeq(StateOrder, 1, Len(trace))

\* a query that has returned is in one terminal state and has records; one
\* that has not is in none
C16_OneTerminal ==
    /\ pc = "done" => (terminal \in Terminals /\ result # <<>>)
    /\ pc # "done" => terminal = "none"
    /\ terminal = "Rendered" <=> (pc = "done" /\ trace = StateOrder)

\* no step of the same query leaves the terminal state
C16_Stays ==
    (pc = "done" /\ nq' = nq) =>
        (pc' = "done" /\ terminal' = terminal /\ result' = result /\ trace' = trace)

\* C16: under fair scheduling every query ends in exactly one terminal state
\* (prompt, Rendered, or Degraded by a network, parse or internal fault); it
\* visits the states only in the order Init, PageFetched, Extracted,
\* ThumbnailsResolved, Rendered, and never leaves its terminal state.
C16_Termination ==
    /\ [](C16_InOrder /\ C16_OneTerminal)
    /\ [][C16_Stays]_vars
    /\ (pc \notin {"idle", "done"}) ~> (pc = "done")

\* a query rendered after waiting for two thumbnail tasks, one of them failed
C16_Witness ==
    /\ pc = "done"
    /\ trace = StateOrder
    /\ Cardinality(MyTasks) = 2
    /\ \E k \in MyTasks : tasks[k].res = NoPath /\ tasks[k].fetches = 1

\* C17: nothing is fetched twice: a query of three characters or more makes
\* exactly one search page request, a shorter one none, and every thumbnail
\* task makes at most one request.
C17_NoRetry ==
    /\ pageRequests <= 1
    /\ (pc \notin {"idle", "Init"} /\ ~TooShort(query)) => pageRequests = 1
    /\ (pc # "idle" /\ TooShort(query)) => pageRequests = 0
    /\ \A k \in 1..Len(tasks) :
          /\ tasks[k].fetches <= 1
          /\ tasks[k].st = "running" => tasks[k].fetches = 0

\* a query rendered after one page request and a failed thumbnail request
C17_Witness ==
    /\ terminal = "Rendered"
    /\ pageRequests = 1
    /\ \E k \in MyTasks :
          tasks[k].res = NoPath /\ tasks[k].fetches = 1 /\ tasks[k].collected

\* C18: the cache is trimmed at startup only. With more image files than
\* the capacity the trim deletes the oldest ones, so that exactly the
\* capacity remains and every file kept is at least as recent as every file
\* deleted; with no more files than the capacity it deletes nothing; and no
\* step of a query deletes a cache file.
C18_TrimAtStartup ==
    boot.pc = "trimmed" =>
        /\ cache \subseteq boot.before
        /\ Cardinality(boot.before) > boot.max_files =>
              /\ Cardinality(cache) = boot.max_files
              /\ \A kept \in cache, gone \in boot.before \ cache :
                    boot.mtime[kept] >= boot.mtime[gone]
        /\ Cardinality(boot.before) <= boot.max_files => cache = boot.before

C18_QueriesKeepFiles == boot.pc = "up" => cache \subseteq cache'

KeyOf(name) ==
    ImgPath(pref_thumb = "channel", ChanId(Video(name)), Video(name).videoId)

\* C19: in the output of one query, two records whose thumbnails have the
\* same cache key carry the same icon path, whatever the interleaving and
\* the outcome of the requests.
C19_SameKeySameIcon ==
    (RenderedKnown /\ pref_thumb # "none") =>
        \A m, n \in 1..Len(videos) :
            KeyOf(videos[m]) = KeyOf(videos[n]) => result[m + 1].icon = result[n + 1].icon

\* C20: with thumbnail mode "none" a query submits no thumbnail task, so it
\* makes no thumbnail request and writes no cache file, and every video
\* record carries the default icon, also when a cached image exists.
C20_ModeNone ==
    (pref_thumb = "none" /\ pc \notin {"idle", "Init", "PageFetched"}) =>
        /\ MyTasks = {}
        /\ \A v_id \in DOMAIN thumb_paths : thumb_paths[v_id] = icon_default
        /\ RenderedKnown =>
              \A n \in 1..Len(videos) : result[n + 1].icon = icon_default

\* rendered in mode "none" with the images of the video and of its channel
\* in the cache
C20_Witness ==
    /\ RenderedKnown
    /\ pref_thumb = "none"
    /\ \E n \in 1..Len(videos) : videos[n] = "VA"
    /\ cache = {<<"c", "UCX">>, <<"v", "a">>}

====
